---- MODULE Spec2Model ----
(***************************************************************************)
(* The two ingestion pipelines of stockops: apps/news/app.py (syndicated   *)
(* news per ticker) and apps/stocks/app.py (OHLCV candles per ticker),     *)
(* each a process-lifetime loop  load config -> fetch -> normalize ->      *)
(* filter -> write -> sleep  around a hot-reloadable configuration.        *)
(*                                                                         *)
(* Text is modelled as Python text: a str is a tuple of one-character      *)
(* strings, so that strip, split, lower, int() and the substring test are  *)
(* computed as the interpreter computes them.  Instants are whole seconds. *)
(***************************************************************************)
EXTENDS Integers, Sequences, FiniteSets, TLC

VARIABLES
    pipeline,   \* "news" | "stocks": which app.py this process runs
    pc,         \* position of main(): "starting", "backfill", "running", "sleeping", "exited"
    procEnv,    \* os.environ: option name -> text
    envFile,    \* /app/.env: [state: "missing" | "ok" | "unreadable", vars: option name -> text]
    feedsYaml,  \* /app/feeds.yaml (news): [state: "missing" | "ok" | "broken", map: ticker -> feed urls]
    served,     \* NewsSource: feed url -> "error" marker or the entries it serves
    market,     \* MarketDataSource: [up: BOOLEAN, data: ticker -> candles]
    now,        \* the wall clock, seconds
    cfg,        \* main()'s local cfg (Unbound until the first successful load in the loop)
    last_cfg,   \* main()'s local last_cfg
    feeds_cfg,  \* main()'s local feeds_cfg (news): ticker -> feed urls
    reloaded,   \* the cycle just run printed "[config] reloaded"
    fetched,    \* the source calls of the step just run
    batch,      \* the write calls made on the sink by the step just run (a sequence of batches)
    outcome,    \* how the step just run ended: [step, result, cause]
    cycles,     \* cycles run so far
    hotEdited,  \* /app/.env was edited between the last load and the one before it
    written,    \* the write of the last backfill or cycle: "skipped" (the step ended before
                \* the writer), "none" (nothing to write), "ok", "failed" (caught by the writer)
    store,      \* the sink's series: (measurement, tag set, timestamp) -> fields
    backfills,  \* calls of backfill_once made so far
    probe       \* input and result of the relevance filter, for the specification of the filter alone

vars == <<pipeline, pc, procEnv, envFile, feedsYaml, served, market, now, cfg,
          last_cfg, feeds_cfg, reloaded, fetched, batch, outcome, cycles,
          hotEdited, written, store, backfills, probe>>

-----------------------------------------------------------------------------
(* Python str operations *)

UpperChars == <<"A","B","C","D","E","F","G","H","I","J","K","L","M",
                "N","O","P","Q","R","S","T","U","V","W","X","Y","Z">>
LowerChars == <<"a","b","c","d","e","f","g","h","i","j","k","l","m",
                "n","o","p","q","r","s","t","u","v","w","x","y","z">>
DigitChars == <<"0","1","2","3","4","5","6","7","8","9">>
\* the characters used, in code point order
CodeOrder == <<"\t", " ", "\"", "#", "'", "+", ",", "-", ".">> \o DigitChars \o <<"=">>
             \o UpperChars \o <<"_">> \o LowerChars

Whitespace == {" ", "\t"}

IndexIn(c, s) == CHOOSE i \in 1..Len(s) : s[i] = c
InSeq(c, s) == \E i \in 1..Len(s) : s[i] = c

\* str.lower() on one character
lowerc(c) == IF InSeq(c, UpperChars) THEN LowerChars[IndexIn(c, UpperChars)] ELSE c
lower(s) == [i \in 1..Len(s) |-> lowerc(s[i])]

RECURSIVE lstripSet(_, _)
lstripSet(s, cs) == IF s # <<>> /\ Head(s) \in cs THEN lstripSet(Tail(s), cs) ELSE s
RECURSIVE rstripSet(_, _)
rstripSet(s, cs) ==
    IF s # <<>> /\ s[Len(s)] \in cs THEN rstripSet(SubSeq(s, 1, Len(s) - 1), cs) ELSE s
\* s.strip() and s.strip(chars)
strip(s) == rstripSet(lstripSet(s, Whitespace), Whitespace)
stripc(s, c) == rstripSet(lstripSet(s, {c}), {c})

\* the text before the first sep: s.split(sep, 1)[0]
RECURSIVE before(_, _)
before(s, sep) ==
    IF s = <<>> \/ Head(s) = sep THEN <<>> ELSE <<Head(s)>> \o before(Tail(s), sep)

\* s.split(sep): always at least one piece
RECURSIVE split(_, _)
split(s, sep) ==
    LET h == before(s, sep) IN
    IF Len(h) = Len(s) THEN <<h>>
    ELSE <<h>> \o split(SubSeq(s, Len(h) + 2, Len(s)), sep)

\* needle in hay
contains(hay, needle) ==
    \E i \in 0..(Len(hay) - Len(needle)) : SubSeq(hay, i + 1, i + Len(needle)) = needle

endswith(s, suf) == Len(s) >= Len(suf) /\ SubSeq(s, Len(s) - Len(suf) + 1, Len(s)) = suf

\* code point order on text: a < b
RECURSIVE strlt(_, _)
strlt(a, b) ==
    IF b = <<>> THEN FALSE
    ELSE IF a = <<>> THEN TRUE
    ELSE IF Head(a) = Head(b) THEN strlt(Tail(a), Tail(b))
    ELSE IndexIn(Head(a), CodeOrder) < IndexIn(Head(b), CodeOrder)

RECURSIVE digitsValue(_)
digitsValue(s) ==
    IF s = <<>> THEN 0
    ELSE 10 * digitsValue(SubSeq(s, 1, Len(s) - 1)) + (IndexIn(s[Len(s)], DigitChars) - 1)

\* int(s): surrounding whitespace and one sign are accepted, then decimal digits;
\* anything else is a ValueError ([ok |-> FALSE])
int(s) ==
    LET t == strip(s)
        signed == t # <<>> /\ Head(t) \in {"+", "-"}
        d == IF signed THEN Tail(t) ELSE t
    IN  IF d # <<>> /\ \A i \in 1..Len(d) : InSeq(d[i], DigitChars)
        THEN [ok |-> TRUE,
              val |-> IF signed /\ Head(t) = "-" THEN 0 - digitsValue(d) ELSE digitsValue(d)]
        ELSE [ok |-> FALSE, val |-> 0]

\* ",".join(parts)
RECURSIVE join(_)
join(parts) ==
    IF parts = <<>> THEN <<>>
    ELSE IF Len(parts) = 1 THEN parts[1]
    ELSE parts[1] \o <<",">> \o join(Tail(parts))

\* a list comprehension's filter
RECURSIVE nonEmpty(_)
nonEmpty(parts) ==
    IF parts = <<>> THEN <<>>
    ELSE IF parts[1] # <<>> THEN <<parts[1]>> \o nonEmpty(Tail(parts))
    ELSE nonEmpty(Tail(parts))

Range(s) == {s[i] : i \in 1..Len(s)}

\* dict.get(k, d)
get(e, k, d) == IF k \in DOMAIN e THEN e[k] ELSE d

\* d.update(o): o wins
update(d, o) == [k \in DOMAIN d \cup DOMAIN o |-> IF k \in DOMAIN o THEN o[k] ELSE d[k]]

-----------------------------------------------------------------------------
(* Text literals of the two programs *)

T_AAPL  == <<"A","A","P","L">>
T_MSFT  == <<"M","S","F","T">>
T_GOOGL == <<"G","O","O","G","L">>
T_VOD   == <<"V","O","D",".","L">>
T_HSBA  == <<"H","S","B","A",".","L">>
T_BP    == <<"B","P",".","L">>
S_true  == <<"t","r","u","e">>
S_yes   == <<"y","e","s">>
S_1m    == <<"1","m">>
S_1d    == <<"1","d">>
S_5d    == <<"5","d">>
S_7d    == <<"7","d">>
S_60d   == <<"6","0","d">>
S_2y    == <<"2","y">>
S_max   == <<"m","a","x">>
S_300   == <<"3","0","0">>

ALLOWED_PERIODS ==
    { S_1d, S_5d, <<"1","m","o">>, <<"3","m","o">>, <<"6","m","o">>, <<"1","y">>, S_2y,
      <<"5","y">>, <<"1","0","y">>, <<"y","t","d">>, S_max }
ALLOWED_INTERVALS ==
    { S_1m, <<"2","m">>, <<"5","m">>, <<"1","5","m">>, <<"3","0","m">>, <<"6","0","m">>,
      <<"9","0","m">>, <<"1","h">>, S_1d, S_5d, <<"1","w","k">>, <<"1","m","o">>,
      <<"3","m","o">> }

Truthy == { <<"1">>, S_true, S_yes, <<"y">> }

-----------------------------------------------------------------------------
(* Configuration: the .env reader, the merge of the two sources, the snapshot *)

\* news read_env_file's cleaning of one value
clean_news(v) == stripc(stripc(strip(v), "\""), "'")

\* stocks _clean_value: the inline comment goes, then spaces and quotes
_clean_value(v) == stripc(stripc(strip(before(v, "#")), "\""), "'")

\* read_env_file: a missing file is an empty dict; any other failure of open() or of
\* the decoding propagates (only FileNotFoundError is caught)
read_env_file(p, f) ==
    IF f.state = "unreadable" THEN [raised |-> TRUE, env |-> <<>>]
    ELSE IF f.state = "missing" THEN [raised |-> FALSE, env |-> <<>>]
    ELSE [raised |-> FALSE,
          env |-> [k \in DOMAIN f.vars |->
                     IF p = "news" THEN clean_news(f.vars[k]) ELSE _clean_value(f.vars[k])]]

\* news: the file, then os.environ on top (container env wins)
merged_env_news(penv, f) ==
    LET r == read_env_file("news", f) IN
    IF r.raised THEN r ELSE [raised |-> FALSE, env |-> update(r.env, penv)]

\* stocks: the sanitized os.environ, then the sanitized file on top (the file wins)
merged_env_stocks(penv, f) ==
    LET r == read_env_file("stocks", f)
        base == [k \in DOMAIN penv |-> _clean_value(penv[k])]
    IN  IF r.raised THEN r
        ELSE [raised |-> FALSE,
              env |-> update(base, [k \in DOMAIN r.env |-> _clean_value(r.env[k])])]

merged_env(p, penv, f) ==
    IF p = "news" THEN merged_env_news(penv, f) ELSE merged_env_stocks(penv, f)

\* [t.strip() for t in text.split(",") if t.strip()]
ticker_list(text) ==
    LET parts == split(text, ",") IN nonEmpty([i \in 1..Len(parts) |-> strip(parts[i])])

NewsDefaultTickers == join(<<T_AAPL, T_MSFT, T_GOOGL, T_VOD, T_HSBA, T_BP>>)
StocksDefaultTickers == join(<<T_VOD, T_HSBA, T_BP>>)

\* news cfg_from_env: the three int() calls are unguarded
cfg_from_env(e) ==
    LET days  == int(get(e, "NEWS_BACKFILL_DAYS", <<"3","0">>))
        poll  == int(get(e, "NEWS_POLL_SECONDS", <<"9","0","0">>))
        hours == int(get(e, "NEWS_LOOKBACK_HOURS", <<"2","4">>))
        kws   == split(get(e, "NEWS_KEYWORDS", <<>>), ",")
    IN  IF ~(days.ok /\ poll.ok /\ hours.ok) THEN [raised |-> TRUE]
        ELSE [raised |-> FALSE,
              cfg |-> [tickers |-> ticker_list(get(e, "TICKERS", NewsDefaultTickers)),
                       backfill_on_start |->
                           lower(get(e, "NEWS_BACKFILL_ON_START", S_true)) \in Truthy,
                       backfill_days |-> days.val,
                       poll_seconds |-> poll.val,
                       lookback_hours |-> hours.val,
                       require_ticker |->
                           lower(get(e, "NEWS_FILTER_REQUIRE_TICKER", S_true)) = S_true,
                       extra_keywords |->
                           nonEmpty([i \in 1..Len(kws) |-> lower(strip(kws[i]))])]]

default_backfill_period(interval) ==
    LET i == lower(interval) IN
    IF i = S_1m THEN S_7d
    ELSE IF i \in { <<"2","m">>, <<"5","m">>, <<"1","5","m">>, <<"3","0","m">> } THEN S_60d
    ELSE IF i \in { <<"6","0","m">>, <<"9","0","m">>, <<"1","h">> } THEN S_2y
    ELSE S_max

\* stocks get_cfg, given the merged environment
get_cfg(e) ==
    LET raw_interval == get(e, "YF_INTERVAL", S_1m)
        yf_interval  == IF raw_interval \in ALLOWED_INTERVALS THEN raw_interval ELSE S_1m
        raw_period   == get(e, "YF_PERIOD", S_1d)
        fallback     == default_backfill_period(yf_interval)
        yf_period    == IF raw_period \in ALLOWED_PERIODS THEN raw_period
                        ELSE IF fallback \in ALLOWED_PERIODS THEN fallback ELSE S_5d
        raw_backfill == strip(get(e, "BACKFILL_PERIOD", <<>>))
        raw_fetch    == strip(get(e, "FETCH_INTERVAL_SECONDS", S_300))
        parsed       == int(IF raw_fetch # <<>> THEN raw_fetch ELSE S_300)
    IN  [tickers |-> ticker_list(get(e, "TICKERS", StocksDefaultTickers)),
         yf_interval |-> yf_interval,
         yf_period |-> yf_period,
         backfill_on_start |-> lower(get(e, "BACKFILL_ON_START", S_true)) \in Truthy,
         backfill_period |->
             IF raw_backfill # <<>> /\ raw_backfill \notin ALLOWED_PERIODS
             THEN <<>> ELSE raw_backfill,
         fetch_interval |-> IF parsed.ok THEN parsed.val ELSE 300]

\* one load of the snapshot, as main() does it: news merged_env() + cfg_from_env(),
\* stocks get_cfg(); [raised |-> TRUE] when the load raises
load(p, penv, f) ==
    LET m == merged_env(p, penv, f) IN
    IF m.raised THEN [raised |-> TRUE]
    ELSE IF p = "news" THEN cfg_from_env(m.env)
    ELSE [raised |-> FALSE, cfg |-> get_cfg(m.env)]

-----------------------------------------------------------------------------
(* News: feed set, timestamp resolution, relevance filter, dedup and write *)

SummaryMax == 800
FUTURE_CLAMP == 300
DaySeconds == 86400
HourSeconds == 3600

\* the two constant parts of the search feed url, each kept as one piece of text
SearchPrefix == << "https://news.google.com/rss/search?q=" >>
SearchSuffix == << "&hl=en-GB&gl=GB&ceid=GB:en" >>

\* urllib.parse.quote_plus on the characters of the model: letters, digits and _ . -
\* pass, a space becomes +, the rest is percent-encoded
quote_char(c) ==
    IF InSeq(c, UpperChars) \/ InSeq(c, LowerChars) \/ InSeq(c, DigitChars)
       \/ c \in {"_", ".", "-"} THEN <<c>>
    ELSE IF c = " " THEN <<"+">>
    ELSE IF c = "\t" THEN <<"%","0","9">>
    ELSE IF c = "\"" THEN <<"%","2","2">>
    ELSE IF c = "#" THEN <<"%","2","3">>
    ELSE IF c = "'" THEN <<"%","2","7">>
    ELSE IF c = "+" THEN <<"%","2","B">>
    ELSE IF c = "=" THEN <<"%","3","D">>
    ELSE <<"%","2","C">>
RECURSIVE quote_plus(_)
quote_plus(s) == IF s = <<>> THEN <<>> ELSE quote_char(Head(s)) \o quote_plus(Tail(s))

search_feed(t) == SearchPrefix \o quote_plus(t) \o SearchSuffix

\* load_feeds_config: the lists of feeds.yaml (none when the file is missing or
\* yaml.safe_load fails), then the search feed for every ticker left without one
load_feeds_config(tickers, yaml) ==
    LET loaded == IF yaml.state = "ok" THEN yaml.map ELSE <<>>
        keys == DOMAIN loaded \cup Range(tickers)
    IN  [t \in keys |->
            IF t \in Range(tickers) /\ (t \notin DOMAIN loaded \/ loaded[t] = <<>>)
            THEN <<search_feed(t)>> ELSE loaded[t]]

\* urlparse(u).netloc: what stands between the first "//" and the next "/", "?" or "#"
RECURSIVE upto(_, _)
upto(s, stops) ==
    IF s = <<>> \/ Head(s) \in stops THEN <<>> ELSE <<Head(s)>> \o upto(Tail(s), stops)
RECURSIVE afterSlashes(_)
afterSlashes(s) ==
    IF Len(s) < 2 THEN <<>>
    ELSE IF s[1] = "/" /\ s[2] = "/" THEN SubSeq(s, 3, Len(s))
    ELSE IF s[1] \in {"/", "?", "#"} THEN <<>>
    ELSE afterSlashes(Tail(s))
domain_from_url(u) == upto(afterSlashes(u), {"/", "?", "#"})

DateKeys == <<"published", "updated", "dc:date", "date">>

\* the first of published/updated/dc:date/date that is present and that
\* parsedate_to_datetime accepts; 0 when there is none (the for loop's else branch)
first_parsed(entry) ==
    LET ok == {i \in 1..Len(DateKeys) : entry.dates[DateKeys[i]].kind = "ok"} IN
    IF ok = {} THEN 0 ELSE CHOOSE i \in ok : \A j \in ok : i <= j

\* parse_time(entry) at instant t: [raised, ts]
parse_time(entry, t) ==
    LET i == first_parsed(entry)
        tuple == IF entry.published_parsed.kind # "none" THEN entry.published_parsed
                 ELSE entry.updated_parsed
        r == IF i # 0 THEN [raised |-> FALSE, ts |-> entry.dates[DateKeys[i]].ts]
             ELSE IF tuple.kind = "bad" THEN [raised |-> TRUE, ts |-> 0]
             ELSE IF tuple.kind = "ok" THEN [raised |-> FALSE, ts |-> tuple.ts]
             ELSE [raised |-> FALSE, ts |-> t]
    IN  IF ~r.raised /\ r.ts > t + FUTURE_CLAMP THEN [raised |-> FALSE, ts |-> t] ELSE r

\* the relevance test of fetch_news_for_ticker
want(ticker, title, summary, require_ticker, extra_keywords) ==
    LET text_lc == lower(title \o <<" ">> \o summary)
        w0 == IF require_ticker THEN contains(text_lc, lower(ticker)) ELSE TRUE
    IN  IF extra_keywords # <<>>
        THEN w0 \/ \E i \in 1..Len(extra_keywords) : contains(text_lc, extra_keywords[i])
        ELSE w0

\* one entry of a feed: [raised, items] with items empty (dropped) or one item
news_item(ticker, e, cutoff, require_ticker, extra_keywords, t) ==
    LET title   == strip(e.title)
        summary == strip(IF e.summary # <<>> THEN e.summary ELSE e.description)
        pt      == parse_time(e, t)
        source  == IF strip(e.source_title) # <<>> THEN strip(e.source_title)
                   ELSE domain_from_url(e.link)
    IN  IF ~e.title_is_text THEN [raised |-> TRUE, items |-> <<>>]
        ELSE IF title = <<>> \/ e.link = <<>> THEN [raised |-> FALSE, items |-> <<>>]
        ELSE IF pt.raised THEN [raised |-> TRUE, items |-> <<>>]
        ELSE IF pt.ts < cutoff THEN [raised |-> FALSE, items |-> <<>>]
        ELSE IF ~want(ticker, title, summary, require_ticker, extra_keywords)
             THEN [raised |-> FALSE, items |-> <<>>]
        ELSE [raised |-> FALSE,
              items |-> << [ticker |-> ticker, title |-> title,
                            summary |-> SubSeq(summary, 1,
                                IF Len(summary) < SummaryMax THEN Len(summary) ELSE SummaryMax),
                            url |-> e.link, source |-> source, time |-> pt.ts] >>]

RECURSIVE news_entries(_, _, _, _, _, _)
news_entries(ticker, entries, cutoff, require_ticker, extra_keywords, t) ==
    IF entries = <<>> THEN [raised |-> FALSE, items |-> <<>>]
    ELSE LET h == news_item(ticker, Head(entries), cutoff, require_ticker, extra_keywords, t)
             r == news_entries(ticker, Tail(entries), cutoff, require_ticker, extra_keywords, t)
         IN  IF h.raised \/ r.raised THEN [raised |-> TRUE, items |-> <<>>]
             ELSE [raised |-> FALSE, items |-> h.items \o r.items]

\* feedparser.parse(url): the entries the source serves, or an exception
feed_of(src, url) == IF url \in DOMAIN src THEN src[url] ELSE [error |-> FALSE, entries |-> <<>>]

\* fetch_news_for_ticker: a feed whose parse raises is skipped; an entry whose
\* normalization raises ends the call with that exception
RECURSIVE fetch_news_for_ticker(_, _, _, _, _, _, _)
fetch_news_for_ticker(ticker, feeds, cutoff, require_ticker, extra_keywords, src, t) ==
    IF feeds = <<>> THEN [raised |-> FALSE, items |-> <<>>]
    ELSE LET d == feed_of(src, Head(feeds))
             h == IF d.error THEN [raised |-> FALSE, items |-> <<>>]
                  ELSE news_entries(ticker, d.entries, cutoff, require_ticker, extra_keywords, t)
             r == fetch_news_for_ticker(ticker, Tail(feeds), cutoff, require_ticker,
                                        extra_keywords, src, t)
         IN  IF h.raised \/ r.raised THEN [raised |-> TRUE, items |-> <<>>]
             ELSE [raised |-> FALSE, items |-> h.items \o r.items]

\* the loop "for t in tickers: all_items.extend(fetch_news_for_ticker(...))":
\* the items, and the calls made (ticker, feeds_cfg.get(t, [])) up to the one that raised
RECURSIVE fetch_all_news(_, _, _, _, _, _, _)
fetch_all_news(tickers, feeds, cutoff, require_ticker, extra_keywords, src, t) ==
    IF tickers = <<>> THEN [raised |-> FALSE, items |-> <<>>, calls |-> <<>>]
    ELSE LET call == [ticker |-> Head(tickers), feeds |-> get(feeds, Head(tickers), <<>>)]
             h == fetch_news_for_ticker(call.ticker, call.feeds, cutoff, require_ticker,
                                        extra_keywords, src, t)
             r == fetch_all_news(Tail(tickers), feeds, cutoff, require_ticker,
                                 extra_keywords, src, t)
         IN  IF h.raised THEN [raised |-> TRUE, items |-> <<>>, calls |-> <<call>>]
             ELSE [raised |-> r.raised,
                   items |-> IF r.raised THEN <<>> ELSE h.items \o r.items,
                   calls |-> <<call>> \o r.calls]

news_point(it) ==
    [measurement |-> "lse_news",
     tags |-> [ticker |-> it.ticker, source |-> it.source],
     fields |-> [title |-> it.title, summary |-> it.summary, url |-> it.url],
     time |-> it.time]

\* the dedup loop of write_news: an item whose (ticker, url) was seen is skipped
RECURSIVE news_points(_, _)
news_points(items, seen) ==
    IF items = <<>> THEN <<>>
    ELSE LET it == Head(items)
             key == <<it.ticker, it.url>>
         IN  IF key \in seen THEN news_points(Tail(items), seen)
             ELSE <<news_point(it)>> \o news_points(Tail(items), seen \cup {key})

\* write_news: the write calls made on the sink (none for an empty list)
write_news(items) == IF items = <<>> THEN <<>> ELSE << news_points(items, {}) >>

-----------------------------------------------------------------------------
(* Stocks: download, per-ticker frames, sort, write *)

SteadyLookback == 1800

\* the frame of one ticker: its candles as rows with the ticker and the currency
\* (yf.Ticker(t).fast_info, '' when it is unavailable)
frame(t, mkt) ==
    LET cs == mkt.data[t] IN
    [i \in 1..Len(cs) |->
        [ticker |-> t, datetime |-> cs[i].datetime, vals |-> cs[i].vals,
         currency |-> get(mkt.currency, t, <<>>)]]

\* a faulty loop over the tickers: it stops at the first ticker without data
RECURSIVE frames_until_gap(_, _)
frames_until_gap(tickers, mkt) ==
    IF tickers = <<>> THEN <<>>
    ELSE IF Head(tickers) \in DOMAIN mkt.data /\ mkt.data[Head(tickers)] # <<>>
         THEN frame(Head(tickers), mkt) \o frames_until_gap(Tail(tickers), mkt)
         ELSE <<>>

\* "for t in tickers": a ticker without a column in the download, or with an empty
\* one, contributes nothing; the others one frame per occurrence in the list
RECURSIVE frames(_, _)
frames(tickers, mkt) ==
    IF tickers = <<>> THEN <<>>
    ELSE IF Head(tickers) \in DOMAIN mkt.data /\ mkt.data[Head(tickers)] # <<>>
         THEN frame(Head(tickers), mkt) \o frames(Tail(tickers), mkt)
         ELSE frames(Tail(tickers), mkt)

row_lt(a, b) ==
    strlt(a.ticker, b.ticker) \/ (a.ticker = b.ticker /\ a.datetime < b.datetime)

\* insert row r into the sorted rows, after the rows not greater than it
RECURSIVE insert_row(_, _)
insert_row(r, rows) ==
    IF rows = <<>> THEN <<r>>
    ELSE IF row_lt(r, Head(rows)) THEN <<r>> \o rows
    ELSE <<Head(rows)>> \o insert_row(r, Tail(rows))

\* DataFrame.sort_values(['ticker', 'datetime'])
RECURSIVE sort_values(_)
sort_values(rows) ==
    IF rows = <<>> THEN <<>>
    ELSE insert_row(rows[Len(rows)], sort_values(SubSeq(rows, 1, Len(rows) - 1)))

\* fetch(tickers, period, interval): one yf.download call for the whole list (an
\* exception of it propagates), then the frames concatenated and sorted.  The
\* provider's answer is whatever the market holds for the ticker.
fetch(tickers, period, interval, mkt) ==
    IF ~mkt.up THEN [raised |-> TRUE, rows |-> <<>>]
    ELSE [raised |-> FALSE, rows |-> sort_values(frames(tickers, mkt))]

\* a faulty cutoff filter: it keeps every row
since_all(rows, cutoff) == rows

\* df[df["datetime"] >= cutoff]
RECURSIVE since(_, _)
since(rows, cutoff) ==
    IF rows = <<>> THEN <<>>
    ELSE IF Head(rows).datetime >= cutoff THEN <<Head(rows)>> \o since(Tail(rows), cutoff)
    ELSE since(Tail(rows), cutoff)

S_LSE == <<"L","S","E">>
S_US  == <<"U","S">>

\* one Point per row: present values only, time = the row's own datetime
price_point(row) ==
    [measurement |-> "lse_prices",
     tags |-> [ticker |-> row.ticker,
               exchange |-> IF endswith(row.ticker, <<".","L">>) THEN S_LSE ELSE S_US,
               currency |-> row.currency],
     fields |-> row.vals,
     time |-> row.datetime]

\* a faulty writer: it submits the batch of an empty frame too
write_to_influx_always(rows) == << [i \in 1..Len(rows) |-> price_point(rows[i])] >>

\* write_to_influx: the write calls made on the sink (none for an empty frame)
write_to_influx(rows) ==
    IF rows = <<>> THEN <<>> ELSE << [i \in 1..Len(rows) |-> price_point(rows[i])] >>

\* a faulty choice of the backfill period: the fallback is passed as it is
backfill_period_unchecked(c) ==
    IF c.backfill_period # <<>> THEN c.backfill_period
    ELSE default_backfill_period(c.yf_interval)

\* the period backfill_once downloads with
backfill_period_of(c) ==
    LET period == IF c.backfill_period # <<>> THEN c.backfill_period
                  ELSE default_backfill_period(c.yf_interval)
    IN  IF period \in ALLOWED_PERIODS THEN period ELSE S_5d

-----------------------------------------------------------------------------
(* The sink: write_api.write(record=points) on the time series store *)

\* the series key of a Point
sink_key(pt) == <<pt.measurement, pt.tags, pt.time>>

\* the store after the points are written in order: a point whose series key is
\* already stored overwrites the fields it carries
RECURSIVE sink_write(_, _)
sink_write(st, points) ==
    IF points = <<>> THEN st
    ELSE LET pt == Head(points)
             k == sink_key(pt)
             fields == IF k \in DOMAIN st THEN update(st[k], pt.fields) ELSE pt.fields
         IN  sink_write(update(st, k :> fields), Tail(points))

\* the writer's try/except around write_api.write: the store after the write calls b
\* of one step, the write succeeding (ok) or raising (caught and logged, nothing stored)
submit(b, ok, st) == IF b = <<>> \/ ~ok THEN st ELSE sink_write(st, b[1])
write_result(b, ok, reached) ==
    IF ~reached THEN "skipped" ELSE IF b = <<>> THEN "none" ELSE IF ok THEN "ok" ELSE "failed"

-----------------------------------------------------------------------------
(* main(): startup, the optional backfill, the loop *)

MaxCycles == 2

Unbound == [unbound |-> TRUE]
ended(step, result, cause) == [step |-> step, result |-> result, cause |-> cause]

\* a faulty change test: "cfg is not last_cfg", the identity of two dicts, which a
\* freshly built snapshot never shares with the last one
changed_by_identity(new, last) == TRUE

\* cfg != last_cfg
changed(new, last) == new # last

\* the feed set after the change test of the loop (news)
refreshed(new, last, feeds, yaml) ==
    IF changed(new, last) /\ new.tickers # last.tickers
    THEN load_feeds_config(new.tickers, yaml) ELSE feeds

\* the age beyond which a steady-state cycle drops a record
lookback(p, c) == IF p = "news" THEN c.lookback_hours * HourSeconds ELSE SteadyLookback

\* the value main() hands to time.sleep
cadence(p, c) == IF p = "news" THEN c.poll_seconds ELSE c.fetch_interval

\* a faulty start: the backfill runs whatever the snapshot says
after_startup_always(c) == "backfill"

\* "if cfg0["backfill_on_start"]: backfill_once(...)", then the loop
after_startup(c) == IF c.backfill_on_start THEN "backfill" ELSE "running"

\* main() up to the with block: the first load (cfg0, kept in last_cfg, which the code
\* assigns from cfg0 unchanged after the backfill), the feed set, the sink client.
\* An exception of the load, or of the client's construction, ends the process.
Startup ==
    /\ pc = "starting"
    /\ LET r == load(pipeline, procEnv, envFile) IN
       IF r.raised
       THEN /\ pc' = "exited"
            /\ outcome' = ended("startup", "uncaught", "config")
            /\ UNCHANGED <<last_cfg, feeds_cfg>>
       ELSE \E client_ok \in BOOLEAN :
            /\ last_cfg' = r.cfg
            /\ feeds_cfg' = IF pipeline = "news"
                            THEN load_feeds_config(r.cfg.tickers, feedsYaml) ELSE <<>>
            /\ pc' = IF ~client_ok THEN "exited" ELSE after_startup(r.cfg)
            /\ outcome' = IF client_ok THEN ended("startup", "ok", "none")
                          ELSE ended("startup", "uncaught", "sink_client")
    /\ UNCHANGED <<pipeline, procEnv, envFile, feedsYaml, served, market, now, cfg,
                   reloaded, fetched, batch, cycles, hotEdited, written, store,
                   backfills, probe>>

\* news backfill_once(client, cfg0...): no handler around it
BackfillNews ==
    /\ pc = "backfill" /\ pipeline = "news"
    /\ LET c == last_cfg
           f == fetch_all_news(c.tickers, feeds_cfg, now - c.backfill_days * DaySeconds,
                               c.require_ticker, c.extra_keywords, served, now)
       IN  /\ fetched' = f.calls
           /\ IF f.raised
              THEN /\ pc' = "exited"
                   /\ batch' = <<>>
                   /\ outcome' = ended("backfill", "uncaught", "fetch")
              ELSE /\ pc' = "running"
                   /\ batch' = write_news(f.items)
                   /\ outcome' = ended("backfill", "ok", "none")
    /\ \E sink_ok \in BOOLEAN :
          /\ batch' = <<>> => sink_ok
          /\ written' = write_result(batch', sink_ok, outcome'.result = "ok")
          /\ store' = submit(batch', sink_ok, store)
    /\ backfills' = backfills + 1
    /\ UNCHANGED <<pipeline, procEnv, envFile, feedsYaml, served, market, now, cfg,
                   last_cfg, feeds_cfg, reloaded, cycles, hotEdited, probe>>

\* stocks backfill_once(client, cfg0...): everything inside try/except
BackfillStocks ==
    /\ pc = "backfill" /\ pipeline = "stocks"
    /\ LET c == last_cfg
           period == backfill_period_of(c)
           f == fetch(c.tickers, period, c.yf_interval, market)
       IN  /\ fetched' = << [tickers |-> c.tickers, period |-> period,
                             interval |-> c.yf_interval] >>
           /\ batch' = IF f.raised THEN <<>> ELSE write_to_influx(f.rows)
           /\ outcome' = IF f.raised THEN ended("backfill", "caught", "fetch")
                         ELSE ended("backfill", "ok", "none")
    /\ pc' = "running"
    /\ \E sink_ok \in BOOLEAN :
          /\ batch' = <<>> => sink_ok
          /\ written' = write_result(batch', sink_ok, outcome'.result = "ok")
          /\ store' = submit(batch', sink_ok, store)
    /\ backfills' = backfills + 1
    /\ UNCHANGED <<pipeline, procEnv, envFile, feedsYaml, served, market, now, cfg,
                   last_cfg, feeds_cfg, reloaded, cycles, hotEdited, probe>>

\* one pass of the try block of the news loop
CycleNews ==
    /\ pc = "running" /\ pipeline = "news" /\ cycles < MaxCycles
    /\ LET r == load("news", procEnv, envFile) IN
       IF r.raised
       THEN /\ outcome' = ended("cycle", "caught", "config")
            /\ reloaded' = FALSE /\ fetched' = <<>> /\ batch' = <<>>
            /\ UNCHANGED <<cfg, last_cfg, feeds_cfg>>
       ELSE LET c == r.cfg
                feeds == refreshed(c, last_cfg, feeds_cfg, feedsYaml)
                f == fetch_all_news(c.tickers, feeds, now - c.lookback_hours * HourSeconds,
                                    c.require_ticker, c.extra_keywords, served, now)
            IN  /\ cfg' = c
                /\ reloaded' = changed(c, last_cfg)
                /\ last_cfg' = c
                /\ feeds_cfg' = feeds
                /\ fetched' = f.calls
                /\ batch' = IF f.raised THEN <<>> ELSE write_news(f.items)
                /\ outcome' = IF f.raised THEN ended("cycle", "caught", "fetch")
                              ELSE ended("cycle", "ok", "none")
    /\ pc' = "sleeping"
    /\ \E sink_ok \in BOOLEAN :
          /\ batch' = <<>> => sink_ok
          /\ written' = write_result(batch', sink_ok, outcome'.result = "ok")
          /\ store' = submit(batch', sink_ok, store)
    /\ cycles' = cycles + 1
    /\ UNCHANGED <<pipeline, procEnv, envFile, feedsYaml, served, market, now, hotEdited,
                   backfills, probe>>

\* one pass of the try block of the stocks loop
CycleStocks ==
    /\ pc = "running" /\ pipeline = "stocks" /\ cycles < MaxCycles
    /\ LET r == load("stocks", procEnv, envFile) IN
       IF r.raised
       THEN /\ outcome' = ended("cycle", "caught", "config")
            /\ reloaded' = FALSE /\ fetched' = <<>> /\ batch' = <<>>
            /\ UNCHANGED <<cfg, last_cfg>>
       ELSE LET c == r.cfg
                f == fetch(c.tickers, c.yf_period, c.yf_interval, market)
            IN  /\ cfg' = c
                /\ reloaded' = changed(c, last_cfg)
                /\ last_cfg' = c
                /\ fetched' = << [tickers |-> c.tickers, period |-> c.yf_period,
                                  interval |-> c.yf_interval] >>
                /\ batch' = IF f.raised THEN <<>>
                            ELSE write_to_influx(since(f.rows, now - SteadyLookback))
                /\ outcome' = IF f.raised THEN ended("cycle", "caught", "fetch")
                              ELSE ended("cycle", "ok", "none")
    /\ pc' = "sleeping"
    /\ \E sink_ok \in BOOLEAN :
          /\ batch' = <<>> => sink_ok
          /\ written' = write_result(batch', sink_ok, outcome'.result = "ok")
          /\ store' = submit(batch', sink_ok, store)
    /\ cycles' = cycles + 1
    /\ UNCHANGED <<pipeline, procEnv, envFile, feedsYaml, served, market, now,
                   feeds_cfg, hotEdited, backfills, probe>>

\* time.sleep(cfg[...]) after the try block: cfg is unbound when no load of the loop
\* has succeeded yet (UnboundLocalError), and a negative length is a ValueError;
\* both are outside the handler and end the process
Sleep ==
    /\ pc = "sleeping"
    /\ IF cfg = Unbound
       THEN /\ pc' = "exited" /\ now' = now
            /\ outcome' = ended("sleep", "uncaught", "unbound_cfg")
       ELSE IF cadence(pipeline, cfg) < 0
       THEN /\ pc' = "exited" /\ now' = now
            /\ outcome' = ended("sleep", "uncaught", "negative_sleep")
       ELSE /\ pc' = "running" /\ now' = now + cadence(pipeline, cfg)
            /\ outcome' = ended("sleep", "ok", "none")
    /\ hotEdited' = FALSE
    /\ UNCHANGED <<pipeline, procEnv, envFile, feedsYaml, served, market, cfg, last_cfg,
                   feeds_cfg, reloaded, fetched, batch, cycles, written, store,
                   backfills, probe>>

-----------------------------------------------------------------------------
(* The environment: configuration sources, feed map, providers *)

T_TSLA == <<"T","S","L","A">>
YearAhead == 365 * DaySeconds

NewsOptions ==
    { <<"TICKERS", T_VOD>>,
      <<"TICKERS", T_TSLA \o <<",">> \o T_VOD>>,
      <<"TICKERS", T_VOD \o <<",", " ">> \o T_VOD>>,
      <<"NEWS_BACKFILL_ON_START", <<"n","o">> >>,
      <<"NEWS_BACKFILL_DAYS", <<"7">> >>,
      <<"NEWS_POLL_SECONDS", <<"7","2","0","0">> >>,
      <<"NEWS_POLL_SECONDS", <<"-","5">> >>,
      <<"NEWS_POLL_SECONDS", <<"a","b","c">> >>,
      <<"NEWS_LOOKBACK_HOURS", <<"1">> >>,
      <<"NEWS_FILTER_REQUIRE_TICKER", <<"F","a","l","s","e">> >>,
      <<"NEWS_KEYWORDS", <<"F","a","r">> >> }

StocksOptions ==
    { <<"TICKERS", T_VOD>>,
      <<"TICKERS", T_TSLA \o <<",">> \o T_VOD>>,
      <<"TICKERS", T_VOD \o <<",", " ">> \o T_VOD>>,
      <<"YF_INTERVAL", <<"5","m">> >>,
      <<"YF_INTERVAL", <<"7","m">> >>,
      <<"YF_PERIOD", <<"6","m","o">> >>,
      <<"YF_PERIOD", S_7d>>,
      <<"BACKFILL_ON_START", <<"n","o">> >>,
      <<"BACKFILL_PERIOD", <<"1","m","o">> >>,
      <<"BACKFILL_PERIOD", S_60d>>,
      <<"FETCH_INTERVAL_SECONDS", <<"6","0"," ","#","s">> >>,
      <<"FETCH_INTERVAL_SECONDS", <<"-","5">> >>,
      <<"FETCH_INTERVAL_SECONDS", <<"a","b","c">> >> }

Options(p) == IF p = "news" THEN NewsOptions ELSE StocksOptions

\* the options the container may set in os.environ
NewsEnvOptions ==
    { <<"TICKERS", T_TSLA \o <<",">> \o T_VOD>>,
      <<"NEWS_POLL_SECONDS", <<"7","2","0","0">> >>,
      <<"NEWS_POLL_SECONDS", <<"-","5">> >> }
StocksEnvOptions ==
    { <<"TICKERS", T_VOD \o <<",", " ">> \o T_VOD>>,
      <<"YF_INTERVAL", <<"5","m">> >>,
      <<"FETCH_INTERVAL_SECONDS", <<"6","0"," ","#","s">> >> }

\* environments that set at most one option
EnvMaps(p) ==
    { <<>> } \cup { o[1] :> o[2] : o \in (IF p = "news" THEN NewsEnvOptions ELSE StocksEnvOptions) }

\* the .env file: missing, unreadable, or holding one option
FileContents(p) ==
    { [state |-> "missing", vars |-> <<>>], [state |-> "unreadable", vars |-> <<>>] }
    \cup { [state |-> "ok", vars |-> o[1] :> o[2]] : o \in Options(p) }

NoDate == [kind |-> "none", ts |-> 0]
at(ts) == [kind |-> "ok", ts |-> ts]
Entry(title, summary, link, published, published_parsed) ==
    [title_is_text |-> TRUE, title |-> title, summary |-> summary, description |-> <<>>,
     link |-> link,
     dates |-> [k \in Range(DateKeys) |-> IF k = "published" THEN published ELSE NoDate],
     published_parsed |-> published_parsed, updated_parsed |-> NoDate,
     source_title |-> <<>>]

Link1 == <<"/","/","x","/","1">>
Link2 == <<"/","/","x","/","2">>
Link3 == <<"/","/","x","/","3">>
YamlFeed == <<"/","/","y","/","f">>
VodUp == <<"V","o","d",".","L"," ","u","p">>

\* what the feeds serve: for VOD.L two records of one link that differ in the summary,
\* one dated a year ahead and one undated; for TSLA a record whose parsed tuple is unusable
VodEntries ==
    << Entry(VodUp, <<"a">>, Link1, at(-10), NoDate),
       Entry(VodUp, <<"b">>, Link1, at(-10), NoDate),
       Entry(<<"V","O","D",".","L"," ","f","a","r">>, <<>>, Link2, at(YearAhead), NoDate),
       Entry(<<"f","a","r">>, <<>>, Link3, NoDate, NoDate) >>
TslaEntries ==
    << Entry(<<"T","S","L","A">>, <<>>, Link1, NoDate, [kind |-> "bad", ts |-> 0]) >>

NewsWorlds ==
    { (search_feed(T_VOD) :> [error |-> FALSE, entries |-> VodEntries])
      @@ (search_feed(T_TSLA) :> [error |-> tsla_down, entries |-> TslaEntries])
      @@ (YamlFeed :> [error |-> TRUE, entries |-> <<>>]) : tsla_down \in BOOLEAN }

FeedMaps ==
    { [state |-> "missing", map |-> <<>>],
      [state |-> "ok", map |-> (T_VOD :> <<YamlFeed, search_feed(T_VOD)>>) @@ (T_TSLA :> <<>>)] }

Candle(ts, close) == [datetime |-> ts, vals |-> ("close" :> close) @@ ("volume" :> 10)]

Markets ==
    { [up |-> TRUE,
       data |-> (T_VOD :> <<Candle(-7200, 70), Candle(-60, 71), Candle(YearAhead, 72)>>)
                @@ (T_BP :> <<Candle(-60, 400)>>) @@ (T_TSLA :> <<>>),
       currency |-> (T_VOD :> <<"G","B","p">>)],
      [up |-> TRUE, data |-> (T_VOD :> <<Candle(-7200, 70)>>), currency |-> <<>>],
      [up |-> FALSE, data |-> <<>>, currency |-> <<>>] }

NoProbe == [done |-> FALSE]

Init ==
    /\ pipeline \in {"news", "stocks"}
    /\ pc = "starting"
    /\ procEnv \in EnvMaps(pipeline)
    /\ envFile \in FileContents(pipeline)
    /\ feedsYaml \in (IF pipeline = "news" THEN FeedMaps ELSE {[state |-> "missing", map |-> <<>>]})
    /\ served \in (IF pipeline = "news" THEN NewsWorlds ELSE { <<>> })
    /\ market \in (IF pipeline = "stocks" THEN Markets
                   ELSE {[up |-> FALSE, data |-> <<>>, currency |-> <<>>]})
    /\ now = 0
    /\ cfg = Unbound
    /\ last_cfg = Unbound
    /\ feeds_cfg = <<>>
    /\ reloaded = FALSE
    /\ fetched = <<>>
    /\ batch = <<>>
    /\ outcome = ended("none", "ok", "none")
    /\ cycles = 0
    /\ hotEdited = FALSE
    /\ written = "none"
    /\ store = <<>>
    /\ backfills = 0
    /\ probe = NoProbe

\* a hot edit of /app/.env.  The file is read by the loads only, so the edits made
\* since the last load are one step, taken before the next load.
EditEnvFile ==
    /\ pc = "running"
    /\ cycles < MaxCycles
    /\ ~hotEdited
    /\ envFile' \in FileContents(pipeline) \ {envFile}
    /\ hotEdited' = TRUE
    /\ UNCHANGED <<pipeline, pc, procEnv, feedsYaml, served, market, now, cfg, last_cfg,
                   feeds_cfg, reloaded, fetched, batch, outcome, cycles, written, store,
                   backfills, probe>>

Next ==
    \/ Startup
    \/ BackfillNews
    \/ BackfillStocks
    \/ CycleNews
    \/ CycleStocks
    \/ Sleep
    \/ EditEnvFile

Spec == Init /\ [][Next]_vars

-----------------------------------------------------------------------------
(* The relevance filter alone: inputs drawn from bounded sets, one application *)

FilterTickers == { T_VOD, T_TSLA }
FilterTitles ==
    { <<"V","o","d",".","l"," ","u","p">>,
      <<"M","a","r","k","e","t"," ","u","p","d","a","t","e">>,
      <<"U","n","r","e","l","a","t","e","d">> }
FilterSummaries ==
    { <<>>, <<"E","A","R","N","I","N","G","S">>, <<"t","s","l","a"," ","f","a","r">> }
FilterRequire == { <<>>, (("NEWS_FILTER_REQUIRE_TICKER") :> <<"f","a","l","s","e">>) }
FilterKeywords ==
    { <<>>,
      (("NEWS_KEYWORDS") :> <<"E","a","r","n","i","n","g","s">>),
      (("NEWS_KEYWORDS") :> <<"f","a","r",","," ","U","p",",">>) }

InitFilter ==
    /\ pipeline = "news"
    /\ pc = "filter"
    /\ procEnv \in { update(r, k) : r \in FilterRequire, k \in FilterKeywords }
    /\ envFile = [state |-> "missing", vars |-> <<>>]
    /\ feedsYaml = [state |-> "missing", map |-> <<>>]
    /\ served = <<>>
    /\ market = [up |-> FALSE, data |-> <<>>, currency |-> <<>>]
    /\ now = 0
    /\ cfg = Unbound
    /\ last_cfg = Unbound
    /\ feeds_cfg = <<>>
    /\ reloaded = FALSE
    /\ fetched = <<>>
    /\ batch = <<>>
    /\ outcome = ended("none", "ok", "none")
    /\ cycles = 0
    /\ hotEdited = FALSE
    /\ written = "none"
    /\ store = <<>>
    /\ backfills = 0
    /\ probe \in { [done |-> FALSE, ticker |-> t, title |-> ti, summary |-> su, kept |-> FALSE] :
                   t \in FilterTickers, ti \in FilterTitles, su \in FilterSummaries }

\* the snapshot is loaded and the relevance test of fetch_news_for_ticker applied to
\* one record of one ticker
ApplyFilter ==
    /\ pc = "filter"
    /\ ~probe.done
    /\ LET r == load("news", procEnv, envFile) IN
       /\ cfg' = r.cfg
       /\ probe' = [probe EXCEPT !.done = TRUE,
                                 !.kept = want(probe.ticker, strip(probe.title),
                                               strip(probe.summary), r.cfg.require_ticker,
                                               r.cfg.extra_keywords)]
    /\ UNCHANGED <<pipeline, pc, procEnv, envFile, feedsYaml, served, market, now,
                   last_cfg, feeds_cfg, reloaded, fetched, batch, outcome, cycles, hotEdited,
                   written, store, backfills>>

NextFilter == ApplyFilter

SpecFilter == InitFilter /\ [][NextFilter]_vars

-----------------------------------------------------------------------------
(* Claims *)

Points == IF batch = <<>> THEN <<>> ELSE batch[1]

\* C1: after every cycle of the loop, whatever the cycle did (an exception of the
\* reload, of the fetch, of the normalization included), the scheduler sleeps and the
\* loop goes on to the next cycle: the step taken from SLEEPING leads to RUNNING,
\* never out of the loop.  Stated for the snapshots whose cadence time.sleep accepts.
C1_CycleThenSleepThenCycle ==
    [][(pc = "sleeping" /\ cadence(pipeline, last_cfg) >= 0) => pc' = "running"]_vars

\* C2: once the sink client is constructed, an exception raised during the backfill
\* does not end the process: the step taken from BACKFILL leads to the first
\* RUNNING cycle.
C2_BackfillReachesRunning == [][pc = "backfill" => pc' = "running"]_vars

\* C3: the load of the snapshot never raises, whatever the configuration sources
\* hold (a readable or a missing file, any option text): no step ends with an
\* exception of the load.
C3_LoadNeverRaises == outcome.cause = "config" => envFile.state = "unreadable"

\* the snapshot in which every option the file sets has the file's value
C4_FileWins ==
    LET f == read_env_file(pipeline, envFile)
        e == update(IF pipeline = "news" THEN procEnv
                    ELSE [k \in DOMAIN procEnv |-> _clean_value(procEnv[k])], f.env)
    IN  IF f.raised THEN [raised |-> TRUE]
        ELSE IF pipeline = "news" THEN cfg_from_env(e)
        ELSE [raised |-> FALSE, cfg |-> get_cfg(e)]

\* C4: when /app/.env was edited between two loads, the cycle that follows runs
\* (fetches, filters, then sleeps) on the snapshot that has the file's value for
\* every option the file sets, whatever the process environment holds.
C4_HotEditTakesEffect ==
    (pc = "sleeping" /\ hotEdited /\ outcome.step = "cycle" /\ outcome.cause # "config"
        /\ ~C4_FileWins.raised)
    => cfg = C4_FileWins.cfg

C5_FeedsNonEmpty ==
    pipeline = "news" => \A i \in 1..Len(fetched) : fetched[i].feeds # <<>>

C5_ChangeStep ==
    (pc = "running" /\ pc' = "sleeping" /\ outcome'.cause # "config")
    => /\ reloaded' <=> (\E f \in DOMAIN cfg' : cfg'[f] # last_cfg[f])
       /\ last_cfg' = cfg'
       /\ pipeline = "news" =>
            \A i \in 1..Len(cfg'.tickers) : get(feeds_cfg', cfg'.tickers[i], <<>>) # <<>>

\* C5: in each cycle the change path (the "[config] reloaded" line, last_cfg
\* replaced) is taken exactly when some field of the fresh snapshot differs from the
\* last snapshot, after which the last snapshot is the fresh one; and at every fetch
\* of the news pipeline the feed list passed for the symbol is not empty.
C5_ChangeDetection == [][C5_ChangeStep]_vars /\ []C5_FeedsNonEmpty

\* C5 witness: a cycle that followed an edit of the symbol list took the change
\* path and fetched TSLA, a symbol new to the feed set
C5_Witness ==
    /\ pipeline = "news" /\ pc = "sleeping" /\ hotEdited /\ reloaded
    /\ procEnv = <<>> /\ envFile.state = "ok" /\ "TICKERS" \in DOMAIN envFile.vars
    /\ \E i \in 1..Len(fetched) : fetched[i].ticker = T_TSLA

\* C6: every Point handed to the sink has timestamp <= now + 5 minutes.
C6_NoFuturePoints ==
    \A i \in 1..Len(Points) : Points[i].time <= now + FUTURE_CLAMP

\* the items the news cycle just run collected, in processing order
C7_Items ==
    fetch_all_news(cfg.tickers, feeds_cfg, now - cfg.lookback_hours * HourSeconds,
                   cfg.require_ticker, cfg.extra_keywords, served, now).items

\* C7: for every identity key (symbol, url) among the records of a news batch,
\* exactly one Point is submitted and it is the Point of the record processed last.
C7_LastDuplicateWins ==
    (pipeline = "news" /\ pc = "sleeping" /\ outcome = ended("cycle", "ok", "none"))
    => \A n \in 1..Len(C7_Items) :
          LET it == C7_Items[n]
              same == {m \in 1..Len(C7_Items) :
                          C7_Items[m].ticker = it.ticker /\ C7_Items[m].url = it.url}
              last == CHOOSE m \in same : \A k \in same : k <= m
              mine == {i \in 1..Len(Points) : Points[i].tags.ticker = it.ticker
                                               /\ Points[i].fields.url = it.url}
          IN  /\ Cardinality(mine) = 1
              /\ \A i \in mine : Points[i] = news_point(C7_Items[last])

C8_Key(pt) ==
    IF pt.measurement = "lse_news" THEN <<pt.tags.ticker, pt.fields.url>>
    ELSE <<pt.tags.ticker, pt.time>>

\* C8: a batch submitted to the sink holds at most one Point per identity key,
\* (symbol, url) for news and (symbol, timestamp) for prices.
C8_OnePointPerKey ==
    \A i, j \in 1..Len(Points) : i # j => C8_Key(Points[i]) # C8_Key(Points[j])

\* C9: the filter keeps a record iff require_ticker is on and the symbol occurs in
\* title+summary, or a configured keyword occurs in it, or neither require_ticker
\* nor a keyword is configured (occurrence without regard to case).
C9_FilterRule ==
    probe.done =>
        LET text == lower(probe.title \o <<" ">> \o probe.summary)
            kws == cfg.extra_keywords
        IN  probe.kept <=>
              \/ cfg.require_ticker /\ contains(text, lower(probe.ticker))
              \/ \E i \in 1..Len(kws) : contains(text, lower(kws[i]))
              \/ ~cfg.require_ticker /\ kws = <<>>

\* the length in days of a period token, 0 for "max" (no limit)
C10_Days(p) ==
    IF p = S_1d THEN 1 ELSE IF p = S_5d THEN 5 ELSE IF p = S_7d THEN 7
    ELSE IF p = <<"1","m","o">> THEN 31 ELSE IF p = S_60d THEN 60
    ELSE IF p = <<"3","m","o">> THEN 92 ELSE IF p = <<"6","m","o">> THEN 184
    ELSE IF p \in { <<"1","y">>, <<"y","t","d">> } THEN 366 ELSE IF p = S_2y THEN 731
    ELSE IF p = <<"5","y">> THEN 1827 ELSE IF p = <<"1","0","y">> THEN 3653 ELSE 0

\* a period the provider serves at this interval: no longer than the interval's
\* fallback period (1m: 7d, 2m..30m: 60d, 60m/90m/1h: 2y, otherwise max)
C10_Supported(interval, period) ==
    LET limit == C10_Days(default_backfill_period(interval)) IN
    limit = 0 \/ (C10_Days(period) # 0 /\ C10_Days(period) <= limit)

\* C10: no period/interval combination outside the provider's supported set is
\* passed to the market data source.
C10_OnlySupportedCombos ==
    pipeline = "stocks" =>
        \A i \in 1..Len(fetched) : C10_Supported(fetched[i].interval, fetched[i].period)

\* the step just run was a cycle of the loop whose load succeeded
C11_CycleRan == pc = "sleeping" /\ outcome.step = "cycle" /\ outcome.cause # "config"

\* what the entry e of a feed of ticker t becomes in the cycle just run
C11_Item(t, e) ==
    news_item(t, e, now - cfg.lookback_hours * HourSeconds, cfg.require_ticker,
              cfg.extra_keywords, now)

\* the feeds of ticker t that answered in the cycle just run
C11_Answering(t) ==
    {u \in Range(get(feeds_cfg, t, <<>>)) : ~feed_of(served, u).error}

\* no entry served for a configured ticker is malformed
C11_AllWellFormed ==
    \A t \in Range(cfg.tickers) : \A u \in C11_Answering(t) :
        \A e \in Range(feed_of(served, u).entries) : ~C11_Item(t, e).raised

C11_News ==
    (pipeline = "news" /\ C11_CycleRan /\ C11_AllWellFormed)
    => /\ outcome = ended("cycle", "ok", "none")
       /\ \A t \in Range(cfg.tickers) :
            /\ \A u \in C11_Answering(t) : \A e \in Range(feed_of(served, u).entries) :
                  C11_Item(t, e).items # <<>>
                  => \E i \in 1..Len(Points) : /\ Points[i].tags.ticker = t
                                                /\ Points[i].fields.url = e.link
            /\ C11_Answering(t) = {}
                  => \A i \in 1..Len(Points) : Points[i].tags.ticker # t

C11_HasData(t) == t \in DOMAIN market.data /\ market.data[t] # <<>>

C11_Stocks ==
    (pipeline = "stocks" /\ C11_CycleRan /\ market.up)
    => /\ outcome = ended("cycle", "ok", "none")
       /\ \A t \in Range(cfg.tickers) :
            IF C11_HasData(t)
            THEN \A k \in 1..Len(market.data[t]) :
                    market.data[t][k].datetime >= now - SteadyLookback
                    => \E i \in 1..Len(Points) : /\ Points[i].tags.ticker = t
                                                  /\ Points[i].time = market.data[t][k].datetime
            ELSE \A i \in 1..Len(Points) : Points[i].tags.ticker # t

\* C11: a fetch failure of one symbol, or of one feed of a symbol, is isolated: the
\* cycle completes and reaches SLEEPING, the batch holds a Point for every record that
\* the answering feeds (news) or the download (prices) delivered for the other
\* symbols and that passed the window and the filter, and no Point of a symbol whose
\* fetch failed.
C11_FetchFailureIsolated == C11_News /\ C11_Stocks

\* C11 witness: the only feed of TSLA, listed first, failed, so did one of the two
\* feeds of VOD.L, and the batch of the cycle holds Points of VOD.L
C11_Witness ==
    /\ pipeline = "news" /\ C11_CycleRan /\ outcome = ended("cycle", "ok", "none")
    /\ cfg.tickers = <<T_TSLA, T_VOD>>
    /\ C11_Answering(T_TSLA) = {}
    /\ YamlFeed \in Range(feeds_cfg[T_VOD]) /\ C11_Answering(T_VOD) # {}
    /\ \E i \in 1..Len(Points) : Points[i].tags.ticker = T_VOD

\* C12: a record whose normalization raises is the only one dropped: every
\* well-formed record that a news cycle fetched from an answering feed, and that
\* passed the window and the filter, has its Point in the batch of that cycle.
C12_OnlyMalformedDropped ==
    (pipeline = "news" /\ C11_CycleRan)
    => \A t \in Range(cfg.tickers) : \A u \in C11_Answering(t) :
          \A e \in Range(feed_of(served, u).entries) :
             (~C11_Item(t, e).raised /\ C11_Item(t, e).items # <<>>)
             => \E i \in 1..Len(Points) : /\ Points[i].tags.ticker = t
                                           /\ Points[i].fields.url = e.link

C13_OneSubmission ==
    /\ Len(batch) <= 1
    /\ \A b \in 1..Len(batch) : batch[b] # <<>>
    /\ (written = "failed" /\ outcome.step \in {"backfill", "cycle"})
         => /\ outcome.result = "ok"
            /\ pc = IF outcome.step = "cycle" THEN "sleeping" ELSE "running"

C13_NextCycleRuns ==
    (written = "failed" /\ pc = "sleeping" /\ cadence(pipeline, cfg) >= 0) => pc' = "running"

\* C13: a step makes at most one submission to the sink and none of an empty batch;
\* a submission that fails is caught by the writer: the step ends normally, the
\* cycle reaches SLEEPING and, for a cadence that time.sleep accepts, the next cycle
\* is started.
C13_SinkFailureContained == []C13_OneSubmission /\ [][C13_NextCycleRuns]_vars

\* C13 witness: the submission of the first cycle failed, the scheduler slept and
\* stands at the start of the second cycle
C13_Witness ==
    /\ written = "failed" /\ batch # <<>> /\ cycles = 1
    /\ pc = "running" /\ outcome = ended("sleep", "ok", "none")

\* the identity key of a stored point
C14_Identity(k) ==
    IF k[1] = "lse_news" THEN <<k[2].ticker, store[k].url>> ELSE <<k[2].ticker, k[3]>>

\* C14: whatever number of cycles delivered the same records, the sink holds one
\* stored point per identity key, (symbol, url) for news and (symbol, timestamp) for
\* prices.
C14_OneStoredPointPerKey ==
    \A k1, k2 \in DOMAIN store : C14_Identity(k1) = C14_Identity(k2) => k1 = k2

\* C15: in every steady-state cycle the lookback window is strictly longer than the
\* cadence the scheduler then sleeps for (the programs print no warning about the
\* two, so the relation itself has to hold).
C15_LookbackExceedsCadence ==
    (C11_CycleRan /\ cfg # Unbound) => lookback(pipeline, cfg) > cadence(pipeline, cfg)

\* C16: the cadence of every snapshot the scheduler sleeps on is at least 1 second.
C16_CadenceAtLeastOne ==
    (pc = "sleeping" /\ cfg # Unbound) => cadence(pipeline, cfg) >= 1

\* every record the source serves now that a cycle run now on the snapshot c keeps
\* (well-formed, inside the window, relevant) has its Point in the batch
C17_Delivered(c) ==
    IF pipeline = "news"
    THEN \A t \in Range(c.tickers) : \A u \in C11_Answering(t) :
            \A e \in Range(feed_of(served, u).entries) :
               LET it == news_item(t, e, now - lookback("news", c), c.require_ticker,
                                   c.extra_keywords, now)
               IN  (~it.raised /\ it.items # <<>>)
                   => \E i \in 1..Len(Points) : /\ Points[i].tags.ticker = t
                                                 /\ Points[i].fields.url = e.link
    ELSE market.up =>
         \A t \in Range(c.tickers) :
            C11_HasData(t) =>
               \A k \in 1..Len(market.data[t]) :
                  market.data[t][k].datetime >= now - lookback("stocks", c)
                  => \E i \in 1..Len(Points) : /\ Points[i].tags.ticker = t
                                                /\ Points[i].time = market.data[t][k].datetime

C17_Step ==
    (pc = "running" /\ pc' = "sleeping" /\ ~hotEdited /\ written \in {"failed", "skipped"})
    => C17_Delivered(last_cfg)'

\* C17: when the write of a step failed, or the step was aborted, the cycle that
\* follows (the configuration files untouched in between) submits every record that
\* the source serves at that time and that is inside the window of the snapshot.
C17_DeliveredByRecurrence == [][C17_Step]_vars

C18_Step ==
    /\ backfills' # backfills
         => (pc = "backfill" /\ backfills = 0 /\ cycles = 0 /\ last_cfg.backfill_on_start)
    /\ pc = "backfill" => backfills' = 1
    /\ pc' = "backfill" => (pc = "starting" /\ last_cfg'.backfill_on_start)
    /\ (pc = "starting" /\ pc' = "running") => ~last_cfg'.backfill_on_start

\* C18: backfill_once is called at most once, between the startup and the first
\* cycle, and exactly when the snapshot loaded at startup has backfill_on_start; a
\* reload of the loop never calls it.
C18_BackfillOnceAtStart == [][C18_Step]_vars /\ [](backfills <= 1)

\* C18 witness: a process started with the backfill off reloaded a snapshot that
\* has it on, ran the cycle, and no backfill was made
C18_Witness ==
    /\ pc = "sleeping" /\ hotEdited /\ reloaded /\ backfills = 0
    /\ cfg # Unbound /\ cfg.backfill_on_start

\* C19: no Point older than now minus the lookback of the snapshot the cycle loaded
\* is in the batch of a steady-state cycle, and a cycle is not aborted by an old
\* record: a cycle whose fetch raised met a malformed record (news) or a failed
\* download (prices).
C19_NothingOlderThanLookback ==
    (C11_CycleRan /\ cfg # Unbound)
    => /\ \A i \in 1..Len(Points) : Points[i].time >= now - lookback(pipeline, cfg)
       /\ outcome.cause = "fetch"
            => IF pipeline = "news" THEN ~C11_AllWellFormed ELSE ~market.up

\* C19 witness: the lookback was edited to one hour before the second cycle, which
\* ran two hours after the first; the records of the first link, dated before the
\* first cycle, are served and are not in the batch, a fresher record is
C19_Witness ==
    /\ pipeline = "news" /\ C11_CycleRan /\ outcome = ended("cycle", "ok", "none")
    /\ cycles = 2 /\ hotEdited /\ reloaded /\ cfg.lookback_hours = 1 /\ now = 2 * HourSeconds
    /\ T_VOD \in Range(cfg.tickers)
    /\ Points # <<>> /\ \A i \in 1..Len(Points) : Points[i].fields.url # Link1

\* C20: every period and every interval passed to the market data source, by the
\* backfill and by every cycle, is a member of ALLOWED_PERIODS, respectively of
\* ALLOWED_INTERVALS.
C20_OnlyAllowedTokens ==
    pipeline = "stocks"
    => \A i \in 1..Len(fetched) : /\ fetched[i].period \in ALLOWED_PERIODS
                                   /\ fetched[i].interval \in ALLOWED_INTERVALS

\* C20 witness: BACKFILL_PERIOD=60d is not an allowed token and is ignored, the
\* fallback of the interval 1m, 7d, is not one either, and the backfill downloads
\* with 5d
C20_Witness ==
    /\ pipeline = "stocks" /\ outcome.step = "backfill" /\ procEnv = <<>>
    /\ envFile.state = "ok" /\ "BACKFILL_PERIOD" \in DOMAIN envFile.vars
    /\ envFile.vars["BACKFILL_PERIOD"] = S_60d
    /\ fetched = << [tickers |-> <<T_VOD, T_HSBA, T_BP>>, period |-> S_5d, interval |-> S_1m] >>

====
